---- MODULE Spec2Model ----
(***************************************************************************)
(* A model of four pieces of fastestimator:                                *)
(*   - CombinedDataset        (dataset/combined_dataset.py)                *)
(*   - Saliency sample buffer (trace/xai/saliency.py)                      *)
(*   - cpu_count              (util/util.py)                               *)
(*   - pad_batch / pad_data   (util/util.py)                               *)
(* Each piece has its own specification (SpecDataset, SpecSaliency,        *)
(* SpecCpu, SpecPad); the variables of the other pieces stay at their      *)
(* idle values.                                                            *)
(***************************************************************************)
EXTENDS Integers, Sequences, FiniteSets, TLC

VARIABLES
    args,        \* CombinedDataset: the list handed to __init__
    datasets,    \* CombinedDataset: self.datasets
    ctor,        \* CombinedDataset: how __init__ ended
    ret,         \* CombinedDataset: the last __len__ / __getitem__ call and its result
    lens,        \* CombinedDataset: every value __len__ has returned so far
    samplesArg,  \* Saliency: the `samples` argument of __init__
    samples,     \* Saliency: self.samples, {mode: buffer}
    n_found,     \* Saliency: self.n_found, {mode: int}
    n_required,  \* Saliency: self.n_required, {mode: int}
    raised,      \* Saliency: the exception that ended the run, or "none"
    nrows,       \* Saliency: how many rows the pipeline has delivered so far
    arrived,     \* Saliency: {mode: the batches that arrived in the current epoch}
    fin,         \* Saliency: {mode: what the first finalizing epoch end saw and built}
    cores,       \* cpu_count: len(os.sched_getaffinity(0)), the cores of the machine
    environ,     \* cpu_count: os.environ, the variables cpu_count reads and writes
    torchThreads,\* cpu_count: what torch.set_num_threads was last given, or 0
    cpuRet,      \* cpu_count: the last call, its result and the cache before it
    decided,     \* cpu_count: TRUE once a call of cpu_count has written the cache
    firstRets,   \* cpu_count: per limit, what the first returning call returned
    batch0,      \* pad_batch: the batch as the caller built it
    batch,       \* pad_batch: the batch, padded in place
    padValue,    \* pad_batch: pad_value
    padRet,      \* pad_batch: how the call ended, or "none" before it
    pdData,      \* pad_data: data
    pdTarget,    \* pad_data: target_shape
    pdValue,     \* pad_data: pad_value
    pdRet,       \* pad_data: what the call returned or raised, or "none" before it
    gbData,      \* get_batch_size: data
    gbRet        \* get_batch_size: what the call returned or raised, or "none" before it

dsVars == <<args, datasets, ctor, ret, lens>>
salVars == <<samplesArg, samples, n_found, n_required, raised, nrows, arrived, fin>>

cpuVars == <<cores, environ, torchThreads, cpuRet, decided, firstRets>>

padVars == <<batch0, batch, padValue, padRet>>

pdVars == <<pdData, pdTarget, pdValue, pdRet>>

gbVars == <<gbData, gbRet>>

vars == <<dsVars, salVars, cpuVars, padVars, pdVars, gbVars>>

(***************************************************************************)
(* Bounds                                                                  *)
(***************************************************************************)
MaxSources == 3
MaxLen == 2
MaxRows == 5        \* rows delivered to the Saliency trace in one run
MaxBatch == 2       \* rows of one batch
MaxRequired == 3    \* the largest `samples` count
MaxCores == 3       \* cores of the machine; limits go one above
MaxRecords == 2     \* records of a batch handed to pad_batch
MaxDim == 2         \* the largest size of an array dimension

(***************************************************************************)
(* Generic helpers                                                         *)
(***************************************************************************)
Range(s) == {s[i] : i \in 1..Len(s)}

SeqsUpTo(S, lo, hi) == UNION {[1..n -> S] : n \in lo..hi}

(***************************************************************************)
(* CombinedDataset                                                         *)
(***************************************************************************)
\* The key sets a record may have.
KeySets == {{"x"}, {"x", "y"}}

\* A record is a dict key -> value; the value of every key of the j-th record
\* of the k-th source is the tag <<k, j>>, so that records are told apart.
MkRecord(keys, k, j) == [key \in keys |-> <<k, j>>]

\* A list of sources from the key sets of their records.
MkDatasets(ks) ==
    [k \in 1..Len(ks) |-> [j \in 1..Len(ks[k]) |-> MkRecord(ks[k][j], k, j)]]

\* The lists a caller may hand to the constructor: 0..MaxSources sources of
\* 0..MaxLen records each.
DatasetArgs ==
    {MkDatasets(ks) : ks \in SeqsUpTo(SeqsUpTo(KeySets, 0, MaxLen), 0, MaxSources)}

\* for ds in datasets[1:]: if ds[0].keys() != keys: raise KeyError
\* (ds[0] of a source without records raises IndexError)
RECURSIVE KeyCheck(_, _, _)
KeyCheck(dsets, keys, k) ==
    IF k > Len(dsets) THEN "ok"
    ELSE IF Len(dsets[k]) = 0 THEN "IndexError"
    ELSE IF DOMAIN dsets[k][1] # keys THEN "KeyError"
    ELSE KeyCheck(dsets, keys, k + 1)

\* A constructor that scans every record of every source.
CtorOutcomeFullScan(dsets) ==
    IF Len(dsets) < 2 THEN "AssertionError"
    ELSE IF \E k \in 1..Len(dsets) : Len(dsets[k]) = 0 THEN "IndexError"
    ELSE IF \E k \in 1..Len(dsets) : \E j \in 1..Len(dsets[k]) :
                DOMAIN dsets[k][j] # DOMAIN dsets[1][1]
         THEN "KeyError"
    ELSE "ok"

\* CombinedDataset.__init__: how the constructor ends on `dsets`.
CtorOutcome(dsets) ==
    IF Len(dsets) < 2 THEN "AssertionError"
    ELSE IF Len(dsets[1]) = 0 THEN "IndexError"
    ELSE KeyCheck(dsets, DOMAIN dsets[1][1], 2)

\* sum([len(ds) for ds in self.datasets])
RECURSIVE SumLens(_, _)
SumLens(dsets, k) ==
    IF k > Len(dsets) THEN 0 ELSE Len(dsets[k]) + SumLens(dsets, k + 1)

\* A length that leaves the first source out.
DatasetLenSkipFirst(dsets) == SumLens(dsets, 2)

\* CombinedDataset.__len__
DatasetLen(dsets) == SumLens(dsets, 1)

\* The loop of __getitem__ from source k on, with the running start and end.
RECURSIVE GetItemLoop(_, _, _, _, _)
GetItemLoop(dsets, idx, k, start, end) ==
    IF k > Len(dsets) THEN [kind |-> "None"]
    ELSE LET end2 == end + Len(dsets[k]) IN
         IF idx >= start /\ idx < end2
         THEN IF (idx - start) + 1 \in 1..Len(dsets[k])
              THEN [kind |-> "value", val |-> dsets[k][(idx - start) + 1]]
              ELSE [kind |-> "IndexError"]
         ELSE GetItemLoop(dsets, idx, k + 1, start + end2, end2)

\* CombinedDataset.__getitem__: [kind |-> "value", val |-> the record returned],
\* [kind |-> "None"] when the loop ends without a return, or
\* [kind |-> "IndexError"] when the source's own lookup ds[idx-start] fails.
GetItem(dsets, idx) == GetItemLoop(dsets, idx, 1, 0, 0)

\* The in-order flattening of the sources: S1 followed by S2, ... (the
\* reference the composite is compared with, not a model of its code).
RECURSIVE FlattenFrom(_, _)
FlattenFrom(dsets, k) ==
    IF k > Len(dsets) THEN <<>> ELSE dsets[k] \o FlattenFrom(dsets, k + 1)

Flatten(dsets) == FlattenFrom(dsets, 1)

IdleDataset ==
    /\ args = <<>>
    /\ datasets = <<>>
    /\ ctor = "none"
    /\ ret = [op |-> "none"]
    /\ lens = {}

IdleSaliency ==
    /\ samplesArg = [kind |-> "None"]
    /\ samples = <<>>
    /\ n_found = <<>>
    /\ n_required = <<>>
    /\ raised = "none"
    /\ nrows = 0
    /\ arrived = <<>>
    /\ fin = <<>>

IdleCpu ==
    /\ cores = 1
    /\ environ = <<>>
    /\ torchThreads = 0
    /\ cpuRet = [op |-> "none"]
    /\ decided = FALSE
    /\ firstRets = {}

IdlePad ==
    /\ batch0 = <<>>
    /\ batch = <<>>
    /\ padValue = 0
    /\ padRet = "none"

IdlePadData ==
    /\ pdData = <<>>
    /\ pdTarget = <<>>
    /\ pdValue = 0
    /\ pdRet = [kind |-> "none"]

IdleBatchSize ==
    /\ gbData = [isdict |-> FALSE, d |-> <<>>]
    /\ gbRet = [kind |-> "none"]

InitDataset ==
    /\ args \in DatasetArgs
    /\ datasets = <<>>
    /\ ctor = "none"
    /\ ret = [op |-> "none"]
    /\ lens = {}
    /\ IdleSaliency
    /\ IdleCpu
    /\ IdlePad
    /\ IdlePadData
    /\ IdleBatchSize

\* __init__(datasets)
Construct ==
    /\ ctor = "none"
    /\ ctor' = CtorOutcome(args)
    /\ datasets' = IF Len(args) < 2 THEN datasets ELSE args
    /\ UNCHANGED <<args, ret, lens, salVars, cpuVars, padVars, pdVars, gbVars>>

\* len(combined)
CallLen ==
    /\ ctor = "ok"
    /\ ret' = [op |-> "len", kind |-> "value", val |-> DatasetLen(datasets)]
    /\ lens' = lens \cup {DatasetLen(datasets)}
    /\ UNCHANGED <<args, datasets, ctor, salVars, cpuVars, padVars, pdVars, gbVars>>

\* combined[idx], for an index from one below the range to one above it
CallGetItem ==
    /\ ctor = "ok"
    /\ \E idx \in -1..(Len(Flatten(datasets)) + 1) :
          ret' = [op |-> "getitem", idx |-> idx] @@ GetItem(datasets, idx)
    /\ UNCHANGED <<args, datasets, ctor, lens, salVars, cpuVars, padVars, pdVars, gbVars>>

NextDataset == Construct \/ CallLen \/ CallGetItem

SpecDataset == InitDataset /\ [][NextDataset]_vars

(***************************************************************************)
(* Claims about CombinedDataset                                            *)
(***************************************************************************)
ValidIndex(idx) == 0 <= idx /\ idx < Len(Flatten(datasets))

\* C1: for every built composite and every index 0 <= i < length(), get(i)
\* returns the i-th record of the in-order flattening of the sources.
C1_GetIsFlattened ==
    (ctor = "ok" /\ ret.op = "getitem" /\ ValidIndex(ret.idx))
        => (ret.kind = "value" /\ ret.val = Flatten(datasets)[ret.idx + 1])

\* C8: get(index) with index < 0 or index >= length() fails with an
\* IndexError; it never returns for such an index.
C8_OutOfRangeRaises ==
    (ctor = "ok" /\ ret.op = "getitem" /\ ~ValidIndex(ret.idx))
        => ret.kind = "IndexError"

\* C9: length() is the sum of the sources' lengths, the number of records of
\* the flattening, and every call returns that same value.
C9_LenIsSum ==
    ctor = "ok" => lens \subseteq {Len(Flatten(args))}

C9_Witness ==
    /\ ctor = "ok" /\ ret.op = "len" /\ lens # {}
    /\ Len(datasets) >= 3
    /\ \E k \in 1..Len(datasets) : Len(datasets[k]) # Len(datasets[1])

\* Some non-first source's first record has another key set than the first
\* source's first record.
FirstKeysDiffer(dsets) ==
    \E k \in 2..Len(dsets) :
        /\ Len(dsets[1]) > 0 /\ Len(dsets[k]) > 0
        /\ DOMAIN dsets[k][1] # DOMAIN dsets[1][1]

ConfigurationError == {"AssertionError", "KeyError"}

\* C7 as stated: construction fails with a configuration error exactly when
\* fewer than 2 sources are given or some non-first source's first-record key
\* set differs from the first source's.
C7_FailsExactlyWhen ==
    ctor # "none" =>
        (ctor \in ConfigurationError <=> (Len(args) < 2 \/ FirstKeysDiffer(args)))

\* C7 amended: the same, for sources that each hold at least one record; then
\* construction succeeds in every other case, whatever the keys of the later
\* records are.
C7_FailsExactlyWhenNonEmpty ==
    (ctor # "none" /\ \A k \in 1..Len(args) : Len(args[k]) > 0) =>
        /\ ctor \in ConfigurationError <=> (Len(args) < 2 \/ FirstKeysDiffer(args))
        /\ ctor \notin ConfigurationError => ctor = "ok"

\* A composite was built from sources of which a later record has other keys
\* than the first records.
C7_Witness ==
    /\ ctor = "ok"
    /\ \E k \in 1..Len(args) : \E j \in 2..Len(args[k]) :
           DOMAIN args[k][j] # DOMAIN args[1][1]

(***************************************************************************)
(* Saliency: the per-mode sample buffer                                    *)
(***************************************************************************)
\* mode = ("eval", "test"), the default of __init__
Modes == {"eval", "test"}

\* self.inputs = to_list(class_key) + to_list(model_inputs)
Inputs == <<"y", "x">>

\* A column of a batch: the rows first..first+size-1 of the run, as key `key`
\* holds them.
Column(key, first, size) == [i \in 1..size |-> <<key, first + i - 1>>]

\* The batch the pipeline delivers after `first - 1` rows: data[key] for every
\* input key, all with the same number of rows.
MkBatch(first, size) == [key \in Range(Inputs) |-> Column(key, first, size)]

\* Buffers. dd tells a defaultdict(list) from a plain dict; m is its content.
\* A value is a pending list of columns or an array of rows.
PendingList(items) == [kind |-> "list", items |-> items]
Array(rows) == [kind |-> "array", rows |-> rows]
EmptyDefaultDict == [dd |-> TRUE, m |-> <<>>]

\* The sample mappings a user may pass as `samples`: {model_input_key: input}
UserMapping == [dd |-> FALSE, m |-> [key \in {"x"} |-> Array(Column("x", 0, 1))]]
EmptyUserMapping == [dd |-> FALSE, m |-> <<>>]

\* The `samples` argument: None, a count, or a mapping.
SamplesArgs ==
    {[kind |-> "None"]}
        \cup {[kind |-> "int", n |-> n] : n \in 0..MaxRequired}
        \cup {[kind |-> "dict", map |-> d] : d \in {UserMapping, EmptyUserMapping}}

\* bool(buffer): a dict is true when it has a key
Truthy(buf) == DOMAIN buf.m # {}

\* concat(val): the columns of a list joined along the batch axis
RECURSIVE Concat(_)
Concat(items) ==
    IF items = <<>> THEN <<>> ELSE Head(items) \o Concat(Tail(items))

\* a[:n] for n >= 0
Take(rows, n) == SubSeq(rows, 1, IF n < Len(rows) THEN n ELSE Len(rows))

\* Saliency.__init__, lines 82-97: the state of one mode after construction
InitSamples(arg) ==
    IF arg.kind = "dict" THEN arg.map ELSE EmptyDefaultDict

InitRequired(arg) == IF arg.kind = "int" THEN arg.n ELSE 0

\* self.samples[mode][key].append(col) for the keys from position i on:
\* the buffer after the loop, or the exception that ends it
RECURSIVE AppendAll(_, _, _)
AppendAll(buf, data, i) ==
    IF i > Len(Inputs) THEN [err |-> "none", buf |-> buf]
    ELSE LET key == Inputs[i] IN
         IF key \notin DOMAIN buf.m
         THEN IF buf.dd
              THEN AppendAll([buf EXCEPT !.m = (key :> PendingList(<<data[key]>>)) @@ @],
                             data, i + 1)
              ELSE [err |-> "KeyError", buf |-> buf]
         ELSE IF buf.m[key].kind = "list"
              THEN AppendAll([buf EXCEPT !.m[key] =
                                  PendingList(Append(@.items, data[key]))],
                             data, i + 1)
              ELSE [err |-> "AttributeError", buf |-> buf]

\* A guard that collects every batch.
CollectsAlways(buf, found, required) == TRUE

\* A guard that still collects when found has reached required.
CollectsUpToRequired(buf, found, required) == ~Truthy(buf) \/ found <= required

\* the guard of on_batch_end, line 102
Collects(buf, found, required) == ~Truthy(buf) \/ found < required

\* on_batch_end, lines 102-107, on the state of one mode: the buffer and the
\* found-count after the call, and the exception it ends with
BatchEnd(buf, found, required, data) ==
    IF Collects(buf, found, required)
    THEN LET res == AppendAll(buf, data, 1) IN
         IF res.err = "none"
         THEN [samples |-> res.buf, err |-> "none",
               n_found |-> found + Len(data[Inputs[Len(Inputs)]])]
         ELSE [samples |-> res.buf, err |-> res.err, n_found |-> found]
    ELSE [samples |-> buf, err |-> "none", n_found |-> found]

\* A finalize that does not truncate the concatenation.
FinalizedNoTruncate(buf, required) ==
    [dd |-> FALSE,
     m |-> [key \in DOMAIN buf.m |->
               IF required > 0
               THEN Array(Concat(buf.m[key].items))
               ELSE Array(buf.m[key].items[1])]]

\* on_epoch_end, lines 114-120: the finalized buffer
Finalized(buf, required) ==
    [dd |-> FALSE,
     m |-> [key \in DOMAIN buf.m |->
               IF required > 0
               THEN Array(Take(Concat(buf.m[key].items), required))
               ELSE Array(buf.m[key].items[1])]]

\* An epoch end that resets the found-count alone.
EpochEndKeepsRequired(buf, found, required) ==
    IF found > 0
    THEN [samples |-> Finalized(buf, required), n_found |-> 0, n_required |-> required]
    ELSE [samples |-> buf, n_found |-> found, n_required |-> required]

\* An epoch end that resets the counts whether it finalizes or not.
EpochEndAlwaysResets(buf, found, required) ==
    IF found > 0
    THEN [samples |-> Finalized(buf, required), n_found |-> 0, n_required |-> 0]
    ELSE [samples |-> buf, n_found |-> 0, n_required |-> 0]

\* on_epoch_end, lines 111-123, on the state of one mode
EpochEnd(buf, found, required) ==
    IF found > 0
    THEN [samples |-> Finalized(buf, required), n_found |-> 0, n_required |-> 0]
    ELSE [samples |-> buf, n_found |-> found, n_required |-> required]

NoFin == [done |-> FALSE]

InitSaliency ==
    /\ samplesArg \in SamplesArgs
    /\ samples = [mode \in Modes |-> InitSamples(samplesArg)]
    /\ n_found = [mode \in Modes |-> 0]
    /\ n_required = [mode \in Modes |-> InitRequired(samplesArg)]
    /\ raised = "none"
    /\ nrows = 0
    /\ arrived = [mode \in Modes |-> <<>>]
    /\ fin = [mode \in Modes |-> NoFin]
    /\ IdleDataset
    /\ IdleCpu
    /\ IdlePad
    /\ IdlePadData
    /\ IdleBatchSize

\* An on_batch_end that keeps one found-count for all modes.
OnBatchEndSharedCount(mode, size) ==
    /\ raised = "none"
    /\ nrows + size <= MaxRows
    /\ LET data == MkBatch(nrows + 1, size)
           res == BatchEnd(samples[mode], n_found[mode], n_required[mode], data)
       IN /\ nrows' = nrows + size
          /\ arrived' = [arrived EXCEPT ![mode] = Append(@, data)]
          /\ samples' = [samples EXCEPT ![mode] = res.samples]
          /\ n_found' = [m \in Modes |-> res.n_found]
          /\ raised' = res.err
    /\ UNCHANGED <<samplesArg, n_required, fin, dsVars, cpuVars, padVars, pdVars, gbVars>>

\* on_batch_end(data) while the system is in `mode`, with a batch of `size` rows
OnBatchEnd(mode, size) ==
    /\ raised = "none"
    /\ nrows + size <= MaxRows
    /\ LET data == MkBatch(nrows + 1, size)
           res == BatchEnd(samples[mode], n_found[mode], n_required[mode], data)
       IN /\ nrows' = nrows + size
          /\ arrived' = [arrived EXCEPT ![mode] = Append(@, data)]
          /\ samples' = [samples EXCEPT ![mode] = res.samples]
          /\ n_found' = [n_found EXCEPT ![mode] = res.n_found]
          /\ raised' = res.err
    /\ UNCHANGED <<samplesArg, n_required, fin, dsVars, cpuVars, padVars, pdVars, gbVars>>

\* on_epoch_end(data) while the system is in `mode`: lines 109-123. The rest of
\* the handler reads self.samples[mode] and writes the image to `data`.
OnEpochEnd(mode) ==
    /\ raised = "none"
    /\ LET res == EpochEnd(samples[mode], n_found[mode], n_required[mode]) IN
          /\ samples' = [samples EXCEPT ![mode] = res.samples]
          /\ n_found' = [n_found EXCEPT ![mode] = res.n_found]
          /\ n_required' = [n_required EXCEPT ![mode] = res.n_required]
          /\ fin' = IF n_found[mode] > 0 /\ ~fin[mode].done
                    THEN [fin EXCEPT ![mode] =
                             [done |-> TRUE, required |-> n_required[mode],
                              found |-> n_found[mode], arrived |-> arrived[mode],
                              buffer |-> res.samples]]
                    ELSE fin
    /\ arrived' = [arrived EXCEPT ![mode] = <<>>]
    /\ UNCHANGED <<samplesArg, raised, nrows, dsVars, cpuVars, padVars, pdVars, gbVars>>

NextSaliency ==
    \/ \E mode \in Modes : \E size \in 1..MaxBatch : OnBatchEnd(mode, size)
    \/ \E mode \in Modes : OnEpochEnd(mode)

SpecSaliency == InitSaliency /\ [][NextSaliency]_vars

(***************************************************************************)
(* Claims about the Saliency buffer                                        *)
(***************************************************************************)
\* The rows of key `key` of every batch of `batches`, in arrival order.
RECURSIVE RowsOf(_, _)
RowsOf(batches, key) ==
    IF batches = <<>> THEN <<>>
    ELSE Head(batches)[key] \o RowsOf(Tail(batches), key)

\* C2: in size-capped mode (required = R > 0), when found >= R at the epoch
\* end, the finalize leaves for every tracked key exactly R rows: the first R
\* rows of that epoch's batches in arrival order.
C2_CappedKeepsFirstR ==
    \A mode \in Modes :
        (fin[mode].done /\ fin[mode].required > 0
            /\ fin[mode].found >= fin[mode].required)
        => /\ DOMAIN fin[mode].buffer.m = Range(Inputs)
           /\ \A key \in Range(Inputs) :
                 /\ fin[mode].buffer.m[key].kind = "array"
                 /\ Len(fin[mode].buffer.m[key].rows) = fin[mode].required
                 /\ \A i \in 1..fin[mode].required :
                       fin[mode].buffer.m[key].rows[i]
                           = RowsOf(fin[mode].arrived, key)[i]

\* A capped buffer was finalized from several batches holding more rows than
\* required.
C2_Witness ==
    \E mode \in Modes :
        /\ fin[mode].done /\ fin[mode].required >= 2
        /\ fin[mode].found > fin[mode].required
        /\ Len(fin[mode].arrived) >= 2

\* C3: in single-batch mode (required = 0, no sample mapping), the finalized
\* buffer of every tracked key is the first batch that arrived; the later
\* batches of the epoch are discarded.
C3_SingleBatchKeepsFirst ==
    \A mode \in Modes :
        /\ (fin[mode].done /\ fin[mode].required = 0)
           => /\ DOMAIN fin[mode].buffer.m = Range(Inputs)
              /\ \A key \in Range(Inputs) :
                    fin[mode].buffer.m[key] = Array(fin[mode].arrived[1][key])
        /\ (samplesArg.kind # "dict" /\ InitRequired(samplesArg) = 0
               /\ ~fin[mode].done /\ arrived[mode] # <<>> /\ raised = "none")
           => /\ n_found[mode] > 0
              /\ DOMAIN samples[mode].m = Range(Inputs)
              /\ \A key \in Range(Inputs) :
                    samples[mode].m[key] = PendingList(<<arrived[mode][1][key]>>)

\* A single-batch buffer was finalized in an epoch in which two batches or
\* more arrived.
C3_Witness ==
    \E mode \in Modes :
        /\ samplesArg.kind # "dict"
        /\ fin[mode].done /\ fin[mode].required = 0
        /\ Len(fin[mode].arrived) >= 2

\* C4: once an epoch end has finalized a mode's buffer, found and required of
\* the mode are 0 and stay 0, and no later batch changes the finalized buffer.
C4_FinalizedStays ==
    \A mode \in Modes :
        fin[mode].done
        => /\ n_found[mode] = 0
           /\ n_required[mode] = 0
           /\ samples[mode] = fin[mode].buffer

\* A batch arrived in a mode, in an epoch after the one that finalized it,
\* where fewer rows than required had been found.
C4_Witness ==
    \E mode \in Modes :
        /\ fin[mode].done /\ fin[mode].found < fin[mode].required
        /\ arrived[mode] # <<>>

\* The batch of the batch-arrival event that this step is for `mode`.
ArrivedNow(mode) == arrived'[mode][Len(arrived'[mode])]

\* This step is a batch-arrival event in `mode`.
BatchArrives(mode) == Len(arrived'[mode]) = Len(arrived[mode]) + 1

\* The pending list of `key` in a buffer, empty when the key is not there yet.
PendingOf(buf, key) == IF key \in DOMAIN buf.m THEN buf.m[key].items ELSE <<>>

\* In size-capped mode the found-count is at most required - 1 plus the size
\* of the last batch in the pending lists, and 0 while nothing is pending.
FoundBound(buf, found, required) ==
    required > 0 =>
        IF DOMAIN buf.m = {} THEN found = 0
        ELSE \A key \in DOMAIN buf.m :
                /\ buf.m[key].kind = "list"
                /\ found <= required - 1
                              + Len(buf.m[key].items[Len(buf.m[key].items)])

\* C13: a batch-arrival event appends the batch to the mode's pending lists
\* and adds its row count to found only if, at arrival, the mode's buffer is
\* empty or found < required, and otherwise changes neither; so in size-capped
\* mode no batch is appended once found >= required, and found never exceeds
\* required - 1 plus the size of the last appended batch.
C13_AppendsOnlyWhileOpen ==
    [][\A mode \in Modes :
          /\ BatchArrives(mode) =>
                IF (DOMAIN samples[mode].m = {} \/ n_found[mode] < n_required[mode])
                       /\ raised' = "none"
                THEN /\ n_found'[mode] = n_found[mode] + Len(ArrivedNow(mode)["x"])
                     /\ \A key \in Range(Inputs) :
                           samples'[mode].m[key] =
                               PendingList(Append(PendingOf(samples[mode], key),
                                                  ArrivedNow(mode)[key]))
                ELSE /\ samples'[mode] = samples[mode]
                     /\ n_found'[mode] = n_found[mode]
          /\ FoundBound(samples'[mode], n_found'[mode], n_required'[mode])]_vars

\* In size-capped mode a batch arrived and was left out, after found had
\* reached required - 1 plus the size of the last appended batch, of 2 rows.
C13_Witness ==
    \E mode \in Modes :
        /\ n_required[mode] >= 2
        /\ n_found[mode] = n_required[mode] + 1
        /\ Len(samples[mode].m["x"].items) = 2
        /\ Len(arrived[mode]) = 3

\* The buffer, the found-count and the required-count of `mode` stay as they
\* are in this step.
ModeUnchanged(mode) ==
    /\ samples'[mode] = samples[mode]
    /\ n_found'[mode] = n_found[mode]
    /\ n_required'[mode] = n_required[mode]

\* C14: an epoch-end event (a step in which no batch arrives) for a mode
\* whose found-count is 0 leaves the mode's buffer, found-count and
\* required-count as they were.
C14_EmptyEpochEndSkips ==
    [][nrows' = nrows =>
          \A mode \in Modes : n_found[mode] = 0 => ModeUnchanged(mode)]_vars

\* The rows of this run that `mode` still shows: those of its current epoch
\* and those of the epoch that finalized it.
RowsShown(mode) ==
    Len(RowsOf(arrived[mode], "x"))
        + (IF fin[mode].done THEN Len(RowsOf(fin[mode].arrived, "x")) ELSE 0)

\* Batches arrived in an epoch that ended with found = 0: an epoch after the
\* one that finalized the mode, or an epoch of a collector with a sample
\* mapping.
C14_Witness ==
    /\ raised = "none"
    /\ nrows > RowsShown("eval") + RowsShown("test")
    /\ \E mode \in Modes : Truthy(samples[mode]) /\ arrived[mode] = <<>>

\* C15: an event in one mode never changes the buffer, the found-count or the
\* required-count of another mode: a mode in which no batch arrived and no
\* epoch with batches ended keeps all three.
C15_ModesIndependent ==
    [][\A mode \in Modes :
          arrived'[mode] = arrived[mode] => ModeUnchanged(mode)]_vars

\* One mode was finalized and saw a batch of a later epoch while another mode
\* was still collecting.
C15_Witness ==
    \E m1, m2 \in Modes :
        /\ m1 # m2
        /\ fin[m1].done /\ arrived[m1] # <<>>
        /\ ~fin[m2].done /\ n_found[m2] > 0

(***************************************************************************)
(* cpu_count                                                               *)
(***************************************************************************)
\* Strings are sequences of characters.
Digits == <<"0", "1", "2", "3", "4", "5", "6", "7", "8", "9">>

DigitVal(c) == (CHOOSE d \in 1..10 : Digits[d] = c) - 1

\* f"{n}" for an int n
RECURSIVE FormatNat(_)
FormatNat(n) ==
    IF n < 10 THEN <<Digits[n + 1]>>
    ELSE FormatNat(n \div 10) \o <<Digits[(n % 10) + 1]>>

Format(n) == IF n < 0 THEN <<"-">> \o FormatNat(0 - n) ELSE FormatNat(n)

RECURSIVE ParseNat(_, _)
ParseNat(str, acc) ==
    IF str = <<>> THEN acc
    ELSE ParseNat(Tail(str), 10 * acc + DigitVal(Head(str)))

IsDigits(str) == str # <<>> /\ \A i \in 1..Len(str) : str[i] \in Range(Digits)

\* int(str): the number, or ValueError when str is no decimal integer
ParseInt(str) ==
    IF IsDigits(str) THEN [ok |-> TRUE, val |-> ParseNat(str, 0)]
    ELSE IF str # <<>> /\ Head(str) = "-" /\ IsDigits(Tail(str))
         THEN [ok |-> TRUE, val |-> 0 - ParseNat(Tail(str), 0)]
    ELSE IF str # <<>> /\ Head(str) = "+" /\ IsDigits(Tail(str))
         THEN [ok |-> TRUE, val |-> ParseNat(Tail(str), 0)]
    ELSE [ok |-> FALSE, val |-> 0]

\* The limit argument: None, or an int.
NoLimit == [has |-> FALSE, n |-> 0]
Limit(n) == [has |-> TRUE, n |-> n]
Limits == {NoLimit} \cup {Limit(n) : n \in -1..(MaxCores + 1)}

\* os.environ.get(name, None)
EnvGet(env, name) ==
    IF name \in DOMAIN env THEN [has |-> TRUE, str |-> env[name]]
    ELSE [has |-> FALSE, str |-> <<>>]

Min2(a, b) == IF a <= b THEN a ELSE b

\* `limit or cores`: None and 0 are both false
OrCores(has, n, ncores) == IF has /\ n # 0 THEN n ELSE ncores

\* The variables cpu_count sets once it has resolved the count.
ThreadVars ==
    {"FE_NUM_THREADS_", "OMP_NUM_THREADS", "MKL_NUM_THREADS",
     "TF_NUM_INTEROP_THREADS", "TF_NUM_INTRAOP_THREADS"}

\* A cpu_count that returns the cached value without comparing the limit.
CpuCountNoCompare(limit, env, ncores, threads) ==
    LET existing == EnvGet(env, "FE_NUM_THREADS_")
        envLimit == EnvGet(env, "FE_NUM_THREADS")
    IN
    IF existing.has /\ existing.str # <<>>
    THEN LET e == ParseInt(existing.str) IN
         IF ~e.ok THEN [kind |-> "ValueError", val |-> 0, env |-> env, threads |-> threads]
         ELSE [kind |-> "return", val |-> e.val, env |-> env, threads |-> threads]
    ELSE LET l == IF envLimit.has /\ envLimit.str # <<>>
                  THEN ParseInt(envLimit.str) ELSE [ok |-> TRUE, val |-> 0]
         IN
         IF ~l.ok THEN [kind |-> "ValueError", val |-> 0, env |-> env, threads |-> threads]
         ELSE LET n == Min2(ncores, Min2(OrCores(limit.has, limit.n, ncores),
                                         OrCores(TRUE, l.val, ncores)))
              IN IF n < 1
                 THEN [kind |-> "ValueError", val |-> 0, env |-> env, threads |-> threads]
                 ELSE [kind |-> "return", val |-> n,
                       env |-> [v \in ThreadVars |-> Format(n)] @@ env,
                       threads |-> n]

\* A cpu_count that does not remember its decision.
CpuCountNoCache(limit, env, ncores, threads) ==
    LET envLimit == EnvGet(env, "FE_NUM_THREADS")
        l == IF envLimit.has /\ envLimit.str # <<>>
             THEN ParseInt(envLimit.str) ELSE [ok |-> TRUE, val |-> 0]
    IN
    IF ~l.ok THEN [kind |-> "ValueError", val |-> 0, env |-> env, threads |-> threads]
    ELSE LET n == Min2(ncores, Min2(OrCores(limit.has, limit.n, ncores),
                                    OrCores(TRUE, l.val, ncores)))
         IN IF n < 1
            THEN [kind |-> "ValueError", val |-> 0, env |-> env, threads |-> threads]
            ELSE [kind |-> "return", val |-> n, env |-> env, threads |-> n]

\* A cpu_count that accepts any resolved count.
CpuCountNoFloor(limit, env, ncores, threads) ==
    LET existing == EnvGet(env, "FE_NUM_THREADS_")
        envLimit == EnvGet(env, "FE_NUM_THREADS")
    IN
    IF existing.has /\ existing.str # <<>>
    THEN LET e == ParseInt(existing.str) IN
         IF ~e.ok THEN [kind |-> "ValueError", val |-> 0, env |-> env, threads |-> threads]
         ELSE IF limit.has /\ limit.n # 0 /\ limit.n # e.val
              THEN [kind |-> "ValueError", val |-> 0, env |-> env, threads |-> threads]
              ELSE [kind |-> "return", val |-> e.val, env |-> env, threads |-> threads]
    ELSE LET l == IF envLimit.has /\ envLimit.str # <<>>
                  THEN ParseInt(envLimit.str) ELSE [ok |-> TRUE, val |-> 0]
         IN
         IF ~l.ok THEN [kind |-> "ValueError", val |-> 0, env |-> env, threads |-> threads]
         ELSE LET n == Min2(ncores, Min2(OrCores(limit.has, limit.n, ncores),
                                         OrCores(TRUE, l.val, ncores)))
              IN [kind |-> "return", val |-> n,
                  env |-> [v \in ThreadVars |-> Format(n)] @@ env,
                  threads |-> n]

\* cpu_count(limit) in an environment `env` on a machine with `ncores` cores:
\* how the call ends, the value it returns, and the environment and the torch
\* thread setting it leaves.
CpuCount(limit, env, ncores, threads) ==
    LET existing == EnvGet(env, "FE_NUM_THREADS_")
        envLimit == EnvGet(env, "FE_NUM_THREADS")
    IN
    IF existing.has /\ existing.str # <<>>
    THEN LET e == ParseInt(existing.str) IN
         IF ~e.ok THEN [kind |-> "ValueError", val |-> 0, env |-> env, threads |-> threads]
         ELSE IF limit.has /\ limit.n # 0 /\ limit.n # e.val
              THEN [kind |-> "ValueError", val |-> 0, env |-> env, threads |-> threads]
              ELSE [kind |-> "return", val |-> e.val, env |-> env, threads |-> threads]
    ELSE LET l == IF envLimit.has /\ envLimit.str # <<>>
                  THEN ParseInt(envLimit.str) ELSE [ok |-> TRUE, val |-> 0]
         IN
         IF ~l.ok THEN [kind |-> "ValueError", val |-> 0, env |-> env, threads |-> threads]
         ELSE LET n == Min2(ncores, Min2(OrCores(limit.has, limit.n, ncores),
                                         OrCores(TRUE, l.val, ncores)))
              IN IF n < 1
                 THEN [kind |-> "ValueError", val |-> 0, env |-> env, threads |-> threads]
                 ELSE [kind |-> "return", val |-> n,
                       env |-> [v \in ThreadVars |-> Format(n)] @@ env,
                       threads |-> n]

\* The values FE_NUM_THREADS may hold when the process starts, and the values
\* FE_NUM_THREADS_ may have been handed down from a parent process.
UserEnvStrings == {<<>>, <<"x">>} \cup {Format(n) : n \in -1..(MaxCores + 1)}
InheritedStrings == {<<"x">>} \cup {Format(n) : n \in 1..MaxCores}

StartEnvs ==
    {<<>>}
        \cup {("FE_NUM_THREADS" :> u) : u \in UserEnvStrings}
        \cup {("FE_NUM_THREADS_" :> c) : c \in InheritedStrings}
        \cup {("FE_NUM_THREADS" :> u) @@ ("FE_NUM_THREADS_" :> c) :
                 u \in {Format(1)}, c \in InheritedStrings}

InitCpu ==
    /\ cores \in 1..MaxCores
    /\ environ \in StartEnvs
    /\ torchThreads = 0
    /\ cpuRet = [op |-> "none"]
    /\ decided = FALSE
    /\ firstRets = {}
    /\ IdleDataset
    /\ IdleSaliency
    /\ IdlePad
    /\ IdlePadData
    /\ IdleBatchSize

\* one call cpu_count(limit)
CallCpuCount ==
    \E limit \in Limits :
        LET res == CpuCount(limit, environ, cores, torchThreads) IN
        /\ environ' = res.env
        /\ torchThreads' = res.threads
        /\ cpuRet' = [op |-> "call", limit |-> limit, kind |-> res.kind,
                      val |-> res.val,
                      before |-> EnvGet(environ, "FE_NUM_THREADS_"),
                      again |-> \E f \in firstRets : f.limit = limit]
        /\ decided' = (decided \/ (res.kind = "return"
                           /\ EnvGet(environ, "FE_NUM_THREADS_").str = <<>>))
        /\ firstRets' = IF res.kind = "return" /\ ~\E f \in firstRets : f.limit = limit
                        THEN firstRets \cup {[limit |-> limit, val |-> res.val]}
                        ELSE firstRets
        /\ UNCHANGED <<cores, dsVars, salVars, padVars, pdVars, gbVars>>

NextCpu == CallCpuCount

SpecCpu == InitCpu /\ [][NextCpu]_vars

(***************************************************************************)
(* Claims about cpu_count                                                  *)
(***************************************************************************)
\* What the first returning call with the limit of the last call returned.
FirstRet == (CHOOSE f \in firstRets : f.limit = cpuRet.limit).val

\* The last call repeats a call that returned before.
Repeated == cpuRet.op = "call" /\ cpuRet.again

\* C5 as stated: once a call cpuCount(L) has returned c, every later call
\* cpuCount(L) returns c too, whatever L and the environment limit are.
C5_Idempotent ==
    Repeated => (cpuRet.kind = "return" /\ cpuRet.val = FirstRet)

\* C5 amended: once a call cpuCount(L) has returned c, a later call
\* cpuCount(L) returns c when L is absent, 0 or equal to c, and fails with
\* ValueError when L is another number (a limit above the core count or above
\* the environment limit, which the first call clamped).
C5_IdempotentWhenLimitIsDecision ==
    Repeated =>
        IF ~cpuRet.limit.has \/ cpuRet.limit.n = 0 \/ cpuRet.limit.n = FirstRet
        THEN cpuRet.kind = "return" /\ cpuRet.val = FirstRet
        ELSE cpuRet.kind = "ValueError"

\* cpuCount(2) was called again after it returned 2.
C5_Witness ==
    /\ Repeated /\ decided
    /\ cpuRet.limit = Limit(2) /\ cpuRet.kind = "return" /\ cpuRet.val = 2

\* The last call found a decision that cpu_count had cached.
CachedBefore == cpuRet.op = "call" /\ decided /\ cpuRet.before.str # <<>>

Uncached ==
    /\ cpuRet.op = "call" /\ cpuRet.before.str = <<>>
    /\ EnvGet(environ, "FE_NUM_THREADS").str # <<>>
           => ParseInt(EnvGet(environ, "FE_NUM_THREADS").str).ok

\* The environment limit of the last call (cpu_count never writes it).
EnvLimitVal == ParseInt(EnvGet(environ, "FE_NUM_THREADS").str).val

\* The counts the last call has to respect: the actual core count, the limit
\* of the caller and the limit of the environment, where a limit equal to a
\* number of `ignored` does not count.
Candidates(ignored) ==
    {cores}
        \cup (IF cpuRet.limit.has /\ cpuRet.limit.n \notin ignored
              THEN {cpuRet.limit.n} ELSE {})
        \cup (IF EnvGet(environ, "FE_NUM_THREADS").str # <<>> /\ EnvLimitVal \notin ignored
              THEN {EnvLimitVal} ELSE {})

Minimum(S) == CHOOSE m \in S : \A n \in S : m <= n

\* With `resolved` the count the last call has to resolve to: it returns and
\* caches it when it is 1 or more, and fails and caches nothing otherwise.
ResolvesTo(resolved) ==
    IF resolved >= 1
    THEN /\ cpuRet.kind = "return" /\ cpuRet.val = resolved
         /\ cpuRet.val <= cores
         /\ EnvGet(environ, "FE_NUM_THREADS_") = [has |-> TRUE, str |-> Format(resolved)]
    ELSE /\ cpuRet.kind = "ValueError"
         /\ EnvGet(environ, "FE_NUM_THREADS_") = cpuRet.before

\* Every value that cpu_count itself cached is 1 or more.
CachedAtLeastOne ==
    decided => ParseInt(EnvGet(environ, "FE_NUM_THREADS_").str).val >= 1

Indices(shape) ==
    {idx \in [1..Len(shape) -> 0..MaxDim] : \A d \in 1..Len(shape) : idx[d] < shape[d]}

\* A numpy array: its shape and the value at every index.
NdArray(shape, at) == [kind |-> "array", shape |-> shape, at |-> at]

\* A value without a shape (a Python number).
Scalar(v) == [kind |-> "scalar", v |-> v]

HasShape(v) == v.kind = "array"

\* The value the caller put at index idx of the array of record r: positive,
\* and different at every index and in every record.
Cell(r, idx) ==
    100 * r + 10 * idx[1] + (IF Len(idx) > 1 THEN idx[2] ELSE 0) + 1

MkArray(r, shape) == NdArray(shape, [idx \in Indices(shape) |-> Cell(r, idx)])

Max2(a, b) == IF a >= b THEN a ELSE b

\* np.max(np.array(shapes), axis=0) for shapes of one rank
RECURSIVE MaxShape(_)
MaxShape(shapes) ==
    IF Len(shapes) = 1 THEN shapes[1]
    ELSE LET rest == MaxShape(Tail(shapes)) IN
         [d \in 1..Len(shapes[1]) |-> Max2(shapes[1][d], rest[d])]

\* np.array(target_shape) - np.array(data.shape): the two vectors are
\* broadcast against each other, which needs equal lengths or one of length 1
ShapeDifference(target, shape) ==
    IF Len(target) = Len(shape)
    THEN [ok |-> TRUE, diff |-> [d \in 1..Len(shape) |-> target[d] - shape[d]]]
    ELSE IF Len(target) = 1 /\ Len(shape) >= 1
    THEN [ok |-> TRUE, diff |-> [d \in 1..Len(shape) |-> target[1] - shape[d]]]
    ELSE IF Len(shape) = 1 /\ Len(target) >= 1
    THEN [ok |-> TRUE, diff |-> [d \in 1..Len(target) |-> target[d] - shape[1]]]
    ELSE [ok |-> FALSE, diff |-> <<>>]

\* A pad that puts the new cells in front of the old ones.
NpPadLowEnd(data, diff, pad_value) ==
    LET shape == [d \in 1..Len(data.shape) |-> data.shape[d] + diff[d]]
    IN NdArray(shape,
               [idx \in Indices(shape) |->
                   LET old == [d \in 1..Len(shape) |-> idx[d] - diff[d]] IN
                   IF old \in DOMAIN data.at THEN data.at[old] ELSE pad_value])

\* np.pad(data, [(0, diff_d) for every dimension d], 'constant',
\* constant_values=pad_value) for diff >= 0
NpPad(data, diff, pad_value) ==
    LET shape == [d \in 1..Len(data.shape) |-> data.shape[d] + diff[d]]
    IN NdArray(shape,
               [idx \in Indices(shape) |->
                   IF idx \in DOMAIN data.at THEN data.at[idx] ELSE pad_value])

\* pad_data(data, target_shape, pad_value): the padded array, or the error
\* the call ends with. np.pad refuses a negative width, and a list of widths
\* that has not one pair per dimension of data.
PadData(data, target_shape, pad_value) ==
    IF ~HasShape(data) THEN [kind |-> "AttributeError"]
    ELSE LET sd == ShapeDifference(target_shape, data.shape) IN
         IF ~sd.ok THEN [kind |-> "ValueError"]
         ELSE IF \E d \in 1..Len(sd.diff) : sd.diff[d] < 0 THEN [kind |-> "ValueError"]
         ELSE IF Len(sd.diff) # Len(data.shape) THEN [kind |-> "ValueError"]
         ELSE NpPad(data, sd.diff, pad_value)

\* The order in which a record's keys are visited.
KeyOrder == <<"x", "y">>

KeysInOrder(rec) == SelectSeq(KeyOrder, LAMBDA key : key \in DOMAIN rec)

\* [data[key].shape for data in batch if hasattr(data[key], "shape")]
RECURSIVE ShapesOf(_, _)
ShapesOf(bat, key) ==
    IF bat = <<>> THEN <<>>
    ELSE (IF HasShape(Head(bat)[key]) THEN <<Head(bat)[key].shape>> ELSE <<>>)
            \o ShapesOf(Tail(bat), key)

\* for data in batch: data[key] = pad_data(data[key], max_shapes, pad_value),
\* from record r on
RECURSIVE PadRecords(_, _, _, _, _)
PadRecords(bat, key, max_shapes, pad_value, r) ==
    IF r > Len(bat) THEN [err |-> "none", batch |-> bat]
    ELSE LET padded == PadData(bat[r][key], max_shapes, pad_value) IN
         IF padded.kind # "array" THEN [err |-> padded.kind, batch |-> bat]
         ELSE PadRecords([bat EXCEPT ![r][key] = padded], key, max_shapes,
                         pad_value, r + 1)

\* the loop over the keys of pad_batch, from the i-th key on
RECURSIVE PadKeys(_, _, _, _)
PadKeys(bat, keys, pad_value, i) ==
    IF i > Len(keys) THEN [err |-> "none", batch |-> bat]
    ELSE LET shapes == ShapesOf(bat, keys[i]) IN
         IF Cardinality(Range(shapes)) > 1
         THEN IF Cardinality({Len(sh) : sh \in Range(shapes)}) # 1
              THEN [err |-> "AssertionError", batch |-> bat]
              ELSE LET res == PadRecords(bat, keys[i], MaxShape(shapes), pad_value, 1)
                   IN IF res.err # "none" THEN res
                      ELSE PadKeys(res.batch, keys, pad_value, i + 1)
         ELSE PadKeys(bat, keys, pad_value, i + 1)

\* pad_batch(batch, pad_value): the exception it ends with, or "none", and
\* the batch it leaves
PadBatch(bat, pad_value) ==
    IF bat = <<>> THEN [err |-> "IndexError", batch |-> bat]
    ELSE IF \E r \in 1..Len(bat) : DOMAIN bat[r] # DOMAIN bat[1]
         THEN [err |-> "AssertionError", batch |-> bat]
    ELSE PadKeys(bat, KeysInOrder(bat[1]), pad_value, 1)

\* The values record r may hold under "x": a number, or an array of rank 1
\* or 2.
XValues(r) ==
    {Scalar(8)}
        \cup {MkArray(r, <<a>>) : a \in {1, MaxDim}}
        \cup {MkArray(r, <<a, b>>) : a, b \in 1..MaxDim}

\* What the n records of a batch hold under "y": nothing, a number each, a
\* number each but for the last record that lacks the key, arrays of rank 1
\* of two sizes, or arrays of two ranks.
YProfiles == {"none", "scalar", "missing", "arrays", "ranks"}

HasY(profile, r, n) ==
    profile # "none" /\ ~(profile = "missing" /\ r = n /\ n > 1)

YValue(profile, r) ==
    IF profile = "arrays" THEN MkArray(r, <<1 + (r % 2)>>)
    ELSE IF profile = "ranks"
         THEN (IF r = 1 THEN MkArray(r, <<1, 1>>) ELSE MkArray(r, <<2>>))
    ELSE Scalar(8)

MkPadRecord(x, profile, r, n) ==
    IF HasY(profile, r, n)
    THEN ("x" :> x) @@ ("y" :> YValue(profile, r))
    ELSE ("x" :> x)

RECURSIVE BatchesOf(_, _, _)
BatchesOf(profile, n, r) ==
    IF r = 0 THEN {<<>>}
    ELSE {Append(b, MkPadRecord(x, profile, r, n)) :
             b \in BatchesOf(profile, n, r - 1), x \in XValues(r)}

Batches ==
    UNION {BatchesOf(profile, n, n) : profile \in YProfiles, n \in 0..MaxRecords}

PadValues == {0, -2}

InitPad ==
    /\ batch0 \in Batches
    /\ batch = batch0
    /\ padValue \in PadValues
    /\ padRet = "none"
    /\ IdleDataset
    /\ IdleSaliency
    /\ IdleCpu
    /\ IdlePadData
    /\ IdleBatchSize

\* pad_batch(batch, pad_value)
CallPadBatch ==
    /\ padRet = "none"
    /\ LET res == PadBatch(batch, padValue) IN
          /\ batch' = res.batch
          /\ padRet' = IF res.err = "none" THEN "returned" ELSE res.err
    /\ UNCHANGED <<batch0, padValue, dsVars, salVars, cpuVars, pdVars, gbVars>>

NextPad == CallPadBatch

SpecPad == InitPad /\ [][NextPad]_vars

(***************************************************************************)
(* Claims about pad_batch                                                  *)
(***************************************************************************)
\* The records of the batch have the same keys, hold arrays under every key,
\* and the arrays of a key have one rank.
PadPrecondition(bat) ==
    /\ bat # <<>>
    /\ \A r \in 1..Len(bat) : DOMAIN bat[r] = DOMAIN bat[1]
    /\ \A r \in 1..Len(bat) : \A key \in DOMAIN bat[r] : HasShape(bat[r][key])
    /\ \A r, q \in 1..Len(bat) : \A key \in DOMAIN bat[1] :
          Len(bat[r][key].shape) = Len(bat[q][key].shape)

\* C10: after padBatch on records with the same keys and, per key, arrays of
\* one rank, the arrays of a key all have the shape that is, dimension by
\* dimension, the largest of the original sizes; every array holds its
\* original values at their original indices and padValue at every other
\* index.
C10_PaddedToMaxShape ==
    (padRet # "none" /\ PadPrecondition(batch0)) =>
        /\ padRet = "returned"
        /\ Len(batch) = Len(batch0)
        /\ \A r \in 1..Len(batch) :
              /\ DOMAIN batch[r] = DOMAIN batch0[r]
              /\ \A key \in DOMAIN batch[r] :
                    /\ batch[r][key].kind = "array"
                    /\ Len(batch[r][key].shape) = Len(batch0[r][key].shape)
                    /\ \A d \in 1..Len(batch[r][key].shape) :
                          /\ \E q \in 1..Len(batch0) :
                                batch[r][key].shape[d] = batch0[q][key].shape[d]
                          /\ \A q \in 1..Len(batch0) :
                                batch[r][key].shape[d] >= batch0[q][key].shape[d]
                    /\ DOMAIN batch[r][key].at = Indices(batch[r][key].shape)
                    /\ \A idx \in Indices(batch[r][key].shape) :
                          batch[r][key].at[idx] =
                              IF idx \in Indices(batch0[r][key].shape)
                              THEN batch0[r][key].at[idx]
                              ELSE padValue

\* pad_batch returned on a batch of which an array had to grow in one
\* dimension and another array in the other.
C10_Witness ==
    /\ padRet = "returned" /\ PadPrecondition(batch0)
    /\ \E r, q \in 1..Len(batch0) :
          /\ Len(batch0[r]["x"].shape) = 2
          /\ batch0[r]["x"].shape[1] < batch0[q]["x"].shape[1]
          /\ batch0[r]["x"].shape[2] > batch0[q]["x"].shape[2]
          /\ batch[r]["x"].shape # batch0[r]["x"].shape
          /\ batch[q]["x"].shape # batch0[q]["x"].shape

(***************************************************************************)
(* pad_data called on its own                                              *)
(***************************************************************************)
\* The arrays handed to pad_data: rank 1 or 2.
PadDataArrays ==
    {MkArray(1, <<a>>) : a \in 1..MaxDim}
        \cup {MkArray(1, <<a, b>>) : a, b \in 1..MaxDim}

\* The target shapes handed to pad_data: rank 1, 2 or 3.
TargetShapes == SeqsUpTo(1..MaxDim, 1, 3)

InitPadData ==
    /\ pdData \in PadDataArrays
    /\ pdTarget \in TargetShapes
    /\ pdValue \in PadValues
    /\ pdRet = [kind |-> "none"]
    /\ IdleDataset
    /\ IdleSaliency
    /\ IdleCpu
    /\ IdlePad
    /\ IdleBatchSize

\* pad_data(data, target_shape, pad_value)
CallPadData ==
    /\ pdRet.kind = "none"
    /\ pdRet' = PadData(pdData, pdTarget, pdValue)
    /\ UNCHANGED <<pdData, pdTarget, pdValue, dsVars, salVars, cpuVars, padVars, gbVars>>

NextPadData == CallPadData

SpecPadData == InitPadData /\ [][NextPadData]_vars

(***************************************************************************)
(* Claims about pad_data                                                   *)
(***************************************************************************)
\* targetShape has the rank of the array and no dimension below the array's.
TargetFits ==
    /\ Len(pdTarget) = Len(pdData.shape)
    /\ \A d \in 1..Len(pdTarget) : pdTarget[d] >= pdData.shape[d]

\* C11: with a targetShape of the array's rank and every dimension >= the
\* array's, padData returns an array of shape targetShape that equals the
\* input on the input's indices and padValue elsewhere; with a targetShape of
\* another rank, or with a smaller dimension, the call fails.
C11_PadDataContract ==
    pdRet.kind # "none" =>
        IF TargetFits
        THEN /\ pdRet.kind = "array"
             /\ pdRet.shape = pdTarget
             /\ DOMAIN pdRet.at = Indices(pdTarget)
             /\ \A idx \in Indices(pdTarget) :
                   pdRet.at[idx] = IF idx \in Indices(pdData.shape)
                                   THEN pdData.at[idx] ELSE pdValue
        ELSE pdRet.kind # "array"

(***************************************************************************)
(* get_batch_size                                                          *)
(***************************************************************************)
\* The values of a batch dictionary: a number, an array of rank 0, arrays of
\* rank 1 with 0..MaxDim rows, arrays of rank 2 with 1..MaxDim rows.
BatchValues ==
    {Scalar(8), NdArray(<<>>, (<<>> :> 7))}
        \cup {MkArray(1, <<a>>) : a \in 0..MaxDim}
        \cup {MkArray(1, <<a, 1>>) : a \in 1..MaxDim}

BatchKeys == {"a", "b", "c"}

\* What a caller may hand to get_batch_size: a dict, or something else.
BatchDicts ==
    {[isdict |-> FALSE, d |-> <<>>]}
        \cup {[isdict |-> TRUE, d |-> d] :
                 d \in UNION {[keys -> BatchValues] : keys \in SUBSET BatchKeys}}

\* hasattr(data[key], "shape") and list(data[key].shape)
HasBatchAxis(v) == HasShape(v) /\ Len(v.shape) > 0

\* A get_batch_size without its second assertion.
GetBatchSizeNoAssert(data) ==
    IF ~data.isdict THEN [kind |-> "AssertionError", val |-> 0]
    ELSE LET batch_size ==
                 {data.d[key].shape[1] : key \in {k \in DOMAIN data.d : HasBatchAxis(data.d[k])}}
         IN IF batch_size = {} THEN [kind |-> "KeyError", val |-> 0]
            ELSE [kind |-> "return", val |-> CHOOSE n \in batch_size : TRUE]

\* get_batch_size(data)
GetBatchSize(data) ==
    IF ~data.isdict THEN [kind |-> "AssertionError", val |-> 0]
    ELSE LET batch_size ==
                 {data.d[key].shape[1] : key \in {k \in DOMAIN data.d : HasBatchAxis(data.d[k])}}
         IN IF Cardinality(batch_size) # 1 THEN [kind |-> "AssertionError", val |-> 0]
            ELSE [kind |-> "return", val |-> CHOOSE n \in batch_size : TRUE]

InitBatchSize ==
    /\ gbData \in BatchDicts
    /\ gbRet = [kind |-> "none"]
    /\ IdleDataset
    /\ IdleSaliency
    /\ IdleCpu
    /\ IdlePad
    /\ IdlePadData

\* get_batch_size(data)
CallGetBatchSize ==
    /\ gbRet.kind = "none"
    /\ gbRet' = GetBatchSize(gbData)
    /\ UNCHANGED <<gbData, dsVars, salVars, cpuVars, padVars, pdVars>>

NextBatchSize == CallGetBatchSize

SpecBatchSize == InitBatchSize /\ [][NextBatchSize]_vars

(***************************************************************************)
(* Claims about get_batch_size                                             *)
(***************************************************************************)
\* The keys whose value has a shape with at least one dimension.
ShapedKeys ==
    {k \in DOMAIN gbData.d : gbData.d[k].kind = "array" /\ gbData.d[k].shape # <<>>}

\* C12: getBatchSize(data) returns s when the first-dimension sizes of all
\* values that have a shape with at least one dimension are equal to s (the
\* other values are ignored); it fails with an assertion error when those
\* sizes differ or when no value has such a shape.
C12_BatchSize ==
    (gbRet.kind # "none" /\ gbData.isdict) =>
        IF /\ ShapedKeys # {}
           /\ \A k, j \in ShapedKeys : gbData.d[k].shape[1] = gbData.d[j].shape[1]
        THEN /\ gbRet.kind = "return"
             /\ \A k \in ShapedKeys : gbRet.val = gbData.d[k].shape[1]
        ELSE gbRet.kind = "AssertionError"

\* get_batch_size returned the common size of two arrays of different rank,
\* next to a value that it ignored.
C12_Witness ==
    /\ gbRet.kind = "return" /\ gbRet.val = 2
    /\ \E k, j \in ShapedKeys : Len(gbData.d[k].shape) # Len(gbData.d[j].shape)
    /\ ShapedKeys # DOMAIN gbData.d

====
